---- MODULE Spec2Model ----
(***************************************************************************)
(* Model of the provider scripts of generic-llm-version-test.              *)
(*                                                                         *)
(* Seven command-line scripts call third-party text and image providers.   *)
(* Two families exist:                                                     *)
(*   - query_llms.py, query_llms_v2.py, image_generation_v2.py: sys.argv   *)
(*     scripts whose adapters wrap everything in try/except and return     *)
(*     None on failure;                                                    *)
(*   - claude/llm_query*.py, claude/image_generation*.py: argparse scripts *)
(*     whose adapters raise, and whose query_all / generate_all catch per  *)
(*     provider and format the failure as the string "Error: <message>".   *)
(*                                                                         *)
(* The vendor SDKs, the network and the file system are the environment:   *)
(* what they do in one adapter invocation is an Env record drawn when the  *)
(* adapter is called.                                                      *)
(***************************************************************************)
EXTENDS Integers, Sequences, FiniteSets, TLC

VARIABLES
  script,     \* which script runs
  argv,       \* command-line words after the script name: <<prompt, provider>>
  outDir,     \* state of the --output-dir path before generate_all runs
  pc,         \* position of the process
  provider,   \* main's local `provider` (args.provider)
  idx,        \* 1-based position in the registry of the next provider to call
  cur,        \* provider whose adapter call is outstanding, or None
  env,        \* what the environment did for each provider called so far
  results,    \* the dict built by query_all / generate_all
  ret,        \* what each adapter call gave back to its caller
  net,        \* vendor requests issued, per provider, in this run
  started,    \* providers whose adapter was invoked, in invocation order
  files,      \* files written in this run
  escaped,    \* exception that left the running function uncaught, or None
  exitCode,   \* process exit status, or Running
  args,       \* the arguments each adapter was called with
  calls,      \* how many times the same request has been made so far
  first,      \* what the first of two successive all-providers calls gave
  cpos,       \* two concurrent generate_all calls: position of each
  cres,       \* two concurrent generate_all calls: results dict of each
  owner       \* two concurrent generate_all calls: whose image each file holds

vars == <<script, argv, outDir, pc, provider, idx, cur, env, results, ret,
          net, started, files, escaped, exitCode, args, calls, first,
          cpos, cres, owner>>

\* The variables of the repeated call and of the concurrent calls.
twiceVars == <<calls, first>>
concVars == <<cpos, cres, owner>>

-----------------------------------------------------------------------------
(* Values *)

\* Python's None where a string is expected (no command-line word equals it).
None == "<None>"

\* exitCode of a process that has not exited yet.
Running == -1

Scripts ==
  {"query_llms", "query_llms_v2", "image_generation_v2",
   "claude_llm_query", "claude_llm_query_v2",
   "claude_image_generation", "claude_image_generation_v2"}

ArgvScripts == {"query_llms", "query_llms_v2", "image_generation_v2"}
ArgparseScripts == Scripts \ ArgvScripts
TextScripts ==
  {"query_llms", "query_llms_v2", "claude_llm_query", "claude_llm_query_v2"}

\* The one prompt of the model.
Prompt == "hi"

\* Python values an adapter hands back: None, a str, a dict holding n image
\* references (urls / image_paths), or a str naming the written file.
NoneV == [t |-> "None", s |-> "", n |-> 0]
StrV(s) == [t |-> "str", s |-> s, n |-> 0]
DictV(n) == [t |-> "dict", s |-> "", n |-> n]

\* bool(v) as `if response:` / `if result:` computes it: None and "" are
\* falsy, a non-empty str and a non-empty dict are truthy.
Truthy(v) == \/ v.t = "str" /\ v.s # ""
             \/ v.t = "dict"

\* What one adapter invocation did: it returned val or raised msg, after
\* issuing net vendor requests and writing the files in files.
Returned(v, k, fs) ==
  [kind |-> "return", val |-> v, msg |-> "", net |-> k, files |-> fs]
Raised(m, k, fs) ==
  [kind |-> "raise", val |-> NoneV, msg |-> m, net |-> k, files |-> fs]

-----------------------------------------------------------------------------
(* Environment of one adapter invocation *)

\* pkg:     the vendor package imports
\* key:     the API-key environment variable is set and non-empty
\* net:     "ok" the vendor call returns (HTTP 200), "exc" the call raises
\*          (connection failure, SDK error), "status" it returns a non-200
\*          response (requests-based adapters only), "hang" the vendor never
\*          answers (requests.post is called without a timeout)
\* payload: shape of the response body
\*   "ok"        one well-formed item (text "hello" / one image)
\*   "errtext"   text adapters: the model's answer is "Error: connection failed"
\*   "emptytext" text adapters: the model's answer is ""
\*   "empty"     the item list is present and empty
\*   "missing"   the item list / text is absent (None, key not in the JSON)
\*   "partial"   image adapters: two items, the second lacks its data field
TextPayloads == {"ok", "errtext", "emptytext", "empty", "missing"}
ImagePayloads == {"ok", "empty", "missing", "partial"}

GoodEnv == [pkg |-> TRUE, key |-> TRUE, net |-> "ok", payload |-> "ok"]

\* Environments with at most one thing wrong, plus package and key both absent.
Faults ==
  { [GoodEnv EXCEPT !.pkg = FALSE],
    [GoodEnv EXCEPT !.key = FALSE],
    [GoodEnv EXCEPT !.pkg = FALSE, !.key = FALSE],
    [GoodEnv EXCEPT !.net = "exc"],
    [GoodEnv EXCEPT !.net = "status"],
    [GoodEnv EXCEPT !.net = "hang"] }

TextEnvs ==
  {[GoodEnv EXCEPT !.payload = p] : p \in TextPayloads}
    \cup {e \in Faults : e.net \notin {"status", "hang"}}
ImageEnvs ==
  {[GoodEnv EXCEPT !.payload = p] : p \in ImagePayloads} \cup Faults

\* Exception messages (str(e)).
MsgImport == "No module named vendor"
MsgNoKey == "api_key must be set"
MsgTransport == "connection failed"
MsgIndex == "list index out of range"
MsgNoneType == "NoneType object is not subscriptable"
MsgKeyArtifacts == "artifacts"
MsgKeyBase64 == "base64"
MsgNoImage == "No image generated"
MsgStability == "Stability API error: bad request"

\* The answer text the vendor produced for a text payload.
AnswerText(payload) ==
  CASE payload = "ok" -> "hello"
    [] payload = "errtext" -> "Error: " \o MsgTransport
    [] payload = "emptytext" -> ""
    [] OTHER -> ""

-----------------------------------------------------------------------------
(* Adapters of query_llms.py / query_llms_v2.py: everything inside one try, *)
(* every failure printed and turned into `return None`.                     *)

\* import; key check; one generate_content call; response.text (which raises
\* when the response carries no candidate text).
query_gemini(e) ==
  IF ~e.pkg THEN Returned(NoneV, 0, {})
  ELSE IF ~e.key THEN Returned(NoneV, 0, {})
  ELSE IF e.net # "ok" THEN Returned(NoneV, 1, {})
  ELSE IF e.payload \in {"empty", "missing"} THEN Returned(NoneV, 1, {})
  ELSE Returned(StrV(AnswerText(e.payload)), 1, {})

\* import; key check; one chat.completions.create call; choices[0] raises
\* IndexError on an empty list; message.content may be None.
query_openai(e) ==
  IF ~e.pkg THEN Returned(NoneV, 0, {})
  ELSE IF ~e.key THEN Returned(NoneV, 0, {})
  ELSE IF e.net # "ok" THEN Returned(NoneV, 1, {})
  ELSE IF e.payload = "empty" THEN Returned(NoneV, 1, {})
  ELSE IF e.payload = "missing" THEN Returned(NoneV, 1, {})
  ELSE Returned(StrV(AnswerText(e.payload)), 1, {})

\* import; key check; one messages.create call; content[0].text.
query_anthropic(e) ==
  IF ~e.pkg THEN Returned(NoneV, 0, {})
  ELSE IF ~e.key THEN Returned(NoneV, 0, {})
  ELSE IF e.net # "ok" THEN Returned(NoneV, 1, {})
  ELSE IF e.payload = "empty" THEN Returned(NoneV, 1, {})
  ELSE IF e.payload = "missing" THEN Returned(NoneV, 1, {})
  ELSE Returned(StrV(AnswerText(e.payload)), 1, {})

-----------------------------------------------------------------------------
(* Adapters of image_generation_v2.py: same try/except shape, dict results. *)

\* Items in the vendor's response list for an image payload.
ItemCount(payload) ==
  CASE payload = "ok" -> 1
    [] payload = "partial" -> 2
    [] OTHER -> 0

\* One images.generate call in either branch of the model test; urls is built
\* from every item of response.data, then response.data[0] is read.
generate_image_openai(e) ==
  IF ~e.pkg THEN Returned(NoneV, 0, {})
  ELSE IF ~e.key THEN Returned(NoneV, 0, {})
  ELSE IF e.net # "ok" THEN Returned(NoneV, 1, {})
  ELSE IF e.payload = "missing" THEN Returned(NoneV, 1, {})
  ELSE IF e.payload = "empty" THEN Returned(NoneV, 1, {})
  ELSE Returned(DictV(ItemCount(e.payload)), 1, {})

\* File written for artifact i of generate_image_stability.
StabilityPath(i) ==
  IF i = 0 THEN "generated_images/stability_0.png"
  ELSE "generated_images/stability_1.png"

\* One requests.post; a non-200 status returns None; each artifact of
\* result.get("artifacts", []) is decoded and written in turn; the seed is
\* read from result.get("artifacts", [{}])[0].
generate_image_stability(e) ==
  IF ~e.pkg THEN Returned(NoneV, 0, {})
  ELSE IF ~e.key THEN Returned(NoneV, 0, {})
  ELSE IF e.net = "exc" THEN Returned(NoneV, 1, {})
  ELSE IF e.net = "status" THEN Returned(NoneV, 1, {})
  ELSE CASE e.payload = "ok" -> Returned(DictV(1), 1, {StabilityPath(0)})
         [] e.payload = "partial" -> Returned(NoneV, 1, {StabilityPath(0)})
         [] e.payload = "empty" -> Returned(NoneV, 1, {})
         [] e.payload = "missing" -> Returned(DictV(0), 1, {})

\* One replicate.run call in either branch; a list output is used as it is,
\* any other output is wrapped into a one-element list.
generate_image_replicate(e) ==
  IF ~e.pkg THEN Returned(NoneV, 0, {})
  ELSE IF ~e.key THEN Returned(NoneV, 0, {})
  ELSE IF e.net # "ok" THEN Returned(NoneV, 1, {})
  ELSE IF e.payload = "missing" THEN Returned(DictV(1), 1, {})
  ELSE Returned(DictV(ItemCount(e.payload)), 1, {})

-----------------------------------------------------------------------------
(* Adapters of claude/llm_query.py / claude/llm_query_v2.py: no try, every  *)
(* failure is an exception that leaves the adapter.  The SDK client is      *)
(* given api_key=os.environ.get(...); with the variable unset the SDK       *)
(* rejects the missing key before it sends anything.                        *)

\* import; Client; one generate_content call; response.text is None when the
\* response carries no text.
claude_query_gemini(e) ==
  IF ~e.pkg THEN Raised(MsgImport, 0, {})
  ELSE IF ~e.key THEN Raised(MsgNoKey, 0, {})
  ELSE IF e.net # "ok" THEN Raised(MsgTransport, 1, {})
  ELSE IF e.payload \in {"empty", "missing"} THEN Returned(NoneV, 1, {})
  ELSE Returned(StrV(AnswerText(e.payload)), 1, {})

\* import; OpenAI; one chat.completions.create call; choices[0].message.content.
claude_query_openai(e) ==
  IF ~e.pkg THEN Raised(MsgImport, 0, {})
  ELSE IF ~e.key THEN Raised(MsgNoKey, 0, {})
  ELSE IF e.net # "ok" THEN Raised(MsgTransport, 1, {})
  ELSE IF e.payload = "empty" THEN Raised(MsgIndex, 1, {})
  ELSE IF e.payload = "missing" THEN Returned(NoneV, 1, {})
  ELSE Returned(StrV(AnswerText(e.payload)), 1, {})

\* import; Anthropic; one messages.create call; content[0].text.
claude_query_anthropic(e) ==
  IF ~e.pkg THEN Raised(MsgImport, 0, {})
  ELSE IF ~e.key THEN Raised(MsgNoKey, 0, {})
  ELSE IF e.net # "ok" THEN Raised(MsgTransport, 1, {})
  ELSE IF e.payload = "empty" THEN Raised(MsgIndex, 1, {})
  ELSE IF e.payload = "missing" THEN Raised(MsgNoneType, 1, {})
  ELSE Returned(StrV(AnswerText(e.payload)), 1, {})

-----------------------------------------------------------------------------
(* Adapters of claude/image_generation.py / claude/image_generation_v2.py.  *)

\* import; OpenAI; one images.generate call; response.data[0].b64_json is
\* decoded and written to output_path.  generate_openai_image in the v2
\* script has the same body.
generate_dalle(e, output_path) ==
  IF ~e.pkg THEN Raised(MsgImport, 0, {})
  ELSE IF ~e.key THEN Raised(MsgNoKey, 0, {})
  ELSE IF e.net # "ok" THEN Raised(MsgTransport, 1, {})
  ELSE IF e.payload = "empty" THEN Raised(MsgIndex, 1, {})
  ELSE IF e.payload = "missing" THEN Raised(MsgNoneType, 1, {})
  ELSE Returned(StrV(output_path), 1, {output_path})

\* import; Client; one generate_images call; a falsy generated_images (None
\* or empty) raises ValueError, otherwise the first image is written.
generate_imagen(e, output_path) ==
  IF ~e.pkg THEN Raised(MsgImport, 0, {})
  ELSE IF ~e.key THEN Raised(MsgNoKey, 0, {})
  ELSE IF e.net # "ok" THEN Raised(MsgTransport, 1, {})
  ELSE IF e.payload \in {"empty", "missing"} THEN Raised(MsgNoImage, 1, {})
  ELSE Returned(StrV(output_path), 1, {output_path})

\* The key is read and put into the Authorization header without a test, so
\* requests.post is issued with or without it; the vendor answers a request
\* that carries no key with a non-200 status.  data["artifacts"][0]["base64"]
\* is decoded and written.  requests is imported at module level.
generate_stability(e, output_path) ==
  IF e.net = "exc" THEN Raised(MsgTransport, 1, {})
  ELSE IF e.net = "status" \/ ~e.key THEN Raised(MsgStability, 1, {})
  ELSE IF e.payload = "missing" THEN Raised(MsgKeyArtifacts, 1, {})
  ELSE IF e.payload = "empty" THEN Raised(MsgIndex, 1, {})
  ELSE Returned(StrV(output_path), 1, {output_path})

\* An adapter that posts a second time when the first post failed.
generate_stability_v2_retry(e, output_path) ==
  IF e.net = "exc" THEN Raised(MsgTransport, 2, {})
  ELSE IF e.net = "status" \/ ~e.key THEN Raised(MsgStability, 2, {})
  ELSE Returned(StrV(output_path), 1, {output_path})

\* claude/image_generation_v2.py: same request, but the 200 response's raw
\* content is written whatever it holds.
generate_stability_v2(e, output_path) ==
  IF e.net = "exc" THEN Raised(MsgTransport, 1, {})
  ELSE IF e.net = "status" \/ ~e.key THEN Raised(MsgStability, 1, {})
  ELSE Returned(StrV(output_path), 1, {output_path})

\* generate_openai_image of claude/image_generation_v2.py.
generate_openai_image(e, output_path) == generate_dalle(e, output_path)

-----------------------------------------------------------------------------
(* Registries and dispatch *)

\* The providers of each script, in the order its all-providers code calls
\* them (the if/elif chain of main for image_generation_v2.py).
Registry(s) ==
  CASE s \in TextScripts -> <<"gemini", "openai", "anthropic">>
    [] s = "image_generation_v2" -> <<"openai", "stability", "replicate">>
    [] s = "claude_image_generation" -> <<"dalle", "imagen", "stability">>
    [] s = "claude_image_generation_v2" -> <<"openai", "imagen", "stability">>

Providers(s) == {Registry(s)[i] : i \in 1..Len(Registry(s))}

\* Environments an invocation of provider p of script s can meet: only the
\* requests-based adapters see a bare non-200 status or wait without a
\* timeout, and the claude image
\* scripts import requests at module level, not in the adapter.
EnvsFor(s, p) ==
  IF s \in TextScripts THEN TextEnvs
  ELSE IF p # "stability"
    THEN {e \in ImageEnvs : e.net \notin {"status", "hang"}}
  ELSE IF s = "image_generation_v2" THEN ImageEnvs
  ELSE {e \in ImageEnvs : e.pkg}

\* str(output_dir / "<provider>_output.png") of generate_all.
OutputPath(dir, p) == dir \o "/" \o p \o "_output.png"

\* The --output-dir of the model and the default of --output.
OutputDirArg == "out"
OutputArg == "output.png"

\* The adapter function the script calls for provider p (func_map, the
\* if/elif chains, and the calls written out in query_all / generate_all).
Invoke(s, p, e, output_path) ==
  CASE s \in {"query_llms", "query_llms_v2"} ->
         (CASE p = "gemini" -> query_gemini(e)
            [] p = "openai" -> query_openai(e)
            [] p = "anthropic" -> query_anthropic(e))
    [] s = "image_generation_v2" ->
         (CASE p = "openai" -> generate_image_openai(e)
            [] p = "stability" -> generate_image_stability(e)
            [] p = "replicate" -> generate_image_replicate(e))
    [] s \in {"claude_llm_query", "claude_llm_query_v2"} ->
         (CASE p = "gemini" -> claude_query_gemini(e)
            [] p = "openai" -> claude_query_openai(e)
            [] p = "anthropic" -> claude_query_anthropic(e))
    [] s = "claude_image_generation" ->
         (CASE p = "dalle" -> generate_dalle(e, output_path)
            [] p = "imagen" -> generate_imagen(e, output_path)
            [] p = "stability" -> generate_stability(e, output_path))
    [] s = "claude_image_generation_v2" ->
         (CASE p = "openai" -> generate_openai_image(e, output_path)
            [] p = "imagen" -> generate_imagen(e, output_path)
            [] p = "stability" -> generate_stability_v2(e, output_path))

\* dict operations: results = {} and results[k] = v.
EmptyDict == [k \in {} |-> NoneV]
SetItem(d, k, v) ==
  [x \in (DOMAIN d) \cup {k} |-> IF x = k THEN v ELSE d[x]]

\* One try/except block of query_all / generate_all: the value stored under
\* the provider's name is the adapter's return value, or f"Error: {e}" when
\* the adapter raised.
Entry(o) ==
  IF o.kind = "raise" THEN StrV("Error: " \o o.msg) ELSE o.val

\* A try/except block that stores nothing when the adapter raises.
TryStore_drop(d, k, o) ==
  IF o.kind = "raise" THEN d ELSE SetItem(d, k, o.val)

\* A try/except block whose handler also overwrites what was stored before.
TryStore_clobber(d, k, o) ==
  IF o.kind = "raise"
    THEN [x \in (DOMAIN d) \cup {k} |-> Entry(o)]
    ELSE SetItem(d, k, o.val)

\* A try/except block that skips its adapter once an earlier provider failed.
TryStore_poison(d, k, o) ==
  IF \E x \in DOMAIN d :
       d[x] \in {StrV("Error: skipped"), StrV("Error: " \o MsgTransport)}
    THEN SetItem(d, k, StrV("Error: skipped"))
    ELSE SetItem(d, k, Entry(o))

\* try: results[k] = adapter(...)  except Exception as e: results[k] = ...
TryStore(d, k, o) == SetItem(d, k, Entry(o))

\* The body of query_all / generate_all after its first statements, as a
\* function of what the environment does for each provider: the blocks run
\* in registry order, each storing one entry, then `return results`.
RECURSIVE all_from(_, _, _, _)
all_from(s, E, i, acc) ==
  IF i > Len(Registry(s)) THEN acc
  ELSE LET p == Registry(s)[i] IN
       all_from(s, E, i + 1,
                TryStore(acc, p,
                         Invoke(s, p, E[p], OutputPath(OutputDirArg, p))))

query_all(s, E) == all_from(s, E, 1, EmptyDict)

\* The same blocks executed in the order `order` instead of the written one.
RECURSIVE all_in_order(_, _, _, _, _)
all_in_order(s, E, order, i, acc) ==
  IF i > Len(order) THEN acc
  ELSE LET p == order[i] IN
       all_in_order(s, E, order, i + 1,
                    TryStore(acc, p,
                             Invoke(s, p, E[p], OutputPath(OutputDirArg, p))))

\* Every order in which the providers of a script can be invoked.
Orders(s) ==
  {o \in [1..Len(Registry(s)) -> Providers(s)] :
     \A i, j \in 1..Len(Registry(s)) : o[i] = o[j] => i = j}

\* str.lower() on the command-line words of the model.
lower(w) == IF w = "OPENAI" THEN "openai" ELSE w

-----------------------------------------------------------------------------
(* Initial state *)

\* Words a user may give as the provider: the script's own names, "all", an
\* upper-case spelling, a name no script knows, and the empty word.
ProviderWords(s) == Providers(s) \cup {"all", "OPENAI", "bogus", ""}

\* The third word of a command line: sys.argv[3] of the sys.argv scripts,
\* --model of claude/llm_query*.py, --output of claude/image_generation*.py.
Override == "custom"

\* Command lines: no prompt, a prompt alone, a prompt and a provider
\* (positional for the sys.argv scripts, --provider for the argparse ones),
\* or these and the third word.
Argvs(s) ==
  {<<>>, <<Prompt>>}
    \cup {<<Prompt, w>> : w \in ProviderWords(s)}
    \cup {<<Prompt, w, Override>> : w \in ProviderWords(s)}

\* The default value of an adapter's model parameter (default_models of
\* query_llms*.py holds the same names).
DefaultModel(s, p) ==
  CASE s = "query_llms" ->
         (CASE p = "gemini" -> "gemini-1.5-pro"
            [] p = "openai" -> "gpt-4o"
            [] OTHER -> "claude-3-5-sonnet-20241022")
    [] s = "query_llms_v2" ->
         (CASE p = "gemini" -> "gemini-2.0-flash-exp"
            [] p = "openai" -> "gpt-4o-2025-01-07"
            [] OTHER -> "claude-3-7-sonnet-20250224")
    [] s = "claude_llm_query" ->
         (CASE p = "gemini" -> "gemini-2.0-flash"
            [] p = "openai" -> "gpt-4o"
            [] OTHER -> "claude-sonnet-4-20250514")
    [] s = "claude_llm_query_v2" ->
         (CASE p = "gemini" -> "gemini-3-flash-preview"
            [] p = "openai" -> "gpt-5.2"
            [] OTHER -> "claude-opus-4-5-20251101")
    [] s = "image_generation_v2" ->
         (CASE p = "openai" -> "dall-e-3"
            [] p = "stability" -> "stable-diffusion-3-medium-diffusers"
            [] OTHER -> "black-forest-labs/flux-dev")
    [] s = "claude_image_generation" ->
         (CASE p = "dalle" -> "dall-e-3"
            [] p = "imagen" -> "imagen-3.0-generate-002"
            [] OTHER -> "stable-diffusion-xl-1024-v1-0")
    [] OTHER ->
         (CASE p = "openai" -> "gpt-image-1.5"
            [] p = "imagen" -> "imagen-4.0-generate-preview"
            [] OTHER -> "sd3.5-large")

\* How many times the same all-providers request is made.
MaxCalls == 2

\* first, before a first call has ended.
NoFirst == [made |-> FALSE, results |-> EmptyDict, escaped |-> None]

\* The callers of generate_all at the same time, and the files generate_all
\* has its adapters write.
NumCallers == 2
Callers == 1..NumCallers
OutputFiles(s) == {OutputPath(OutputDirArg, p) : p \in Providers(s)}

\* args of a provider whose adapter has not been called.
NoArgs == [prompt |-> None, model |-> None, output |-> None]

\* env and ret of a provider that has not been called.
NotCalled == [pkg |-> TRUE, key |-> TRUE, net |-> "none", payload |-> "none"]
NoRet == [kind |-> "none", val |-> NoneV, msg |-> "", net |-> 0, files |-> {}]

Init ==
  /\ script \in Scripts
  /\ argv \in Argvs(script)
  /\ outDir = "unknown"
  /\ pc = "main"
  /\ provider = None
  /\ idx = 0
  /\ cur = None
  /\ env = [p \in Providers(script) |-> NotCalled]
  /\ results = EmptyDict
  /\ ret = [p \in Providers(script) |-> NoRet]
  /\ net = [p \in Providers(script) |-> 0]
  /\ started = <<>>
  /\ files = {}
  /\ escaped = None
  /\ exitCode = Running
  /\ args = [p \in Providers(script) |-> NoArgs]
  /\ calls = 1
  /\ first = NoFirst
  /\ cpos = [c \in Callers |-> 0]
  /\ cres = [c \in Callers |-> EmptyDict]
  /\ owner = [f \in OutputFiles(script) |-> 0]

-----------------------------------------------------------------------------
(* main *)

\* sys.exit(code), or the interpreter ending the process.
Exit(code) == pc' = "exit" /\ exitCode' = code

\* main of query_llms.py / query_llms_v2.py up to the first adapter call:
\* usage and exit 1 without a prompt; provider = argv[2].lower() or None;
\* `if provider:` selects the single-provider chain, whose else branch is the
\* unknown-provider exit; a falsy provider selects the all-providers branch.
main_query_llms ==
  /\ pc = "main"
  /\ script \in {"query_llms", "query_llms_v2"}
  /\ IF Len(argv) < 1
       THEN Exit(1) /\ UNCHANGED <<provider, idx>>
       ELSE LET prov == IF Len(argv) > 1 THEN lower(argv[2]) ELSE None IN
            /\ provider' = prov
            /\ IF prov # None /\ prov # ""
                 THEN IF prov \in {"gemini", "openai", "anthropic"}
                        THEN pc' = "single" /\ UNCHANGED <<exitCode, idx>>
                        ELSE Exit(1) /\ UNCHANGED idx
                 ELSE pc' = "all" /\ idx' = 1 /\ UNCHANGED exitCode
  /\ UNCHANGED <<script, argv, outDir, cur, env, results, ret, net, started,
                 files, escaped>>
  /\ UNCHANGED <<args, twiceVars, concVars>>

\* main of image_generation_v2.py up to the adapter call: the provider
\* defaults to "openai"; the final else is the unknown-provider exit.
main_image_generation_v2 ==
  /\ pc = "main"
  /\ script = "image_generation_v2"
  /\ IF Len(argv) < 1
       THEN Exit(1) /\ UNCHANGED provider
       ELSE LET prov == IF Len(argv) > 1 THEN lower(argv[2]) ELSE "openai" IN
            /\ provider' = prov
            /\ IF prov \in {"openai", "stability", "replicate"}
                 THEN pc' = "single" /\ UNCHANGED exitCode
                 ELSE Exit(1)
  /\ UNCHANGED <<script, argv, outDir, idx, cur, env, results, ret, net,
                 started, files, escaped>>
  /\ UNCHANGED <<args, twiceVars, concVars>>

\* __main__ of the four claude/ scripts up to the first call: argparse exits
\* with status 2 when the prompt is missing or --provider is not one of its
\* choices; --provider defaults to "all".
main_argparse ==
  /\ pc = "main"
  /\ script \in ArgparseScripts
  /\ IF Len(argv) < 1
       THEN Exit(2) /\ UNCHANGED <<provider, idx>>
       ELSE LET prov == IF Len(argv) > 1 THEN argv[2] ELSE "all" IN
            IF prov \notin Providers(script) \cup {"all"}
              THEN Exit(2) /\ UNCHANGED <<provider, idx>>
              ELSE /\ provider' = prov
                   /\ UNCHANGED exitCode
                   /\ IF prov = "all"
                        THEN IF script \in TextScripts
                               THEN pc' = "all" /\ idx' = 1
                               ELSE pc' = "mkdir" /\ UNCHANGED idx
                        ELSE pc' = "single" /\ UNCHANGED idx
  /\ UNCHANGED <<script, argv, outDir, cur, env, results, ret, net, started,
                 files, escaped>>
  /\ UNCHANGED <<args, twiceVars, concVars>>

-----------------------------------------------------------------------------
(* generate_all, first statements *)

\* What output_dir.mkdir(exist_ok=True) can find at the path: a directory,
\* nothing (parent present), nothing and no parent, or a regular file.
DirStates == {"exists", "absent", "noparent", "file"}

MsgNoParent == "No such file or directory"
MsgFileExists == "File exists"

\* results = {}; output_dir = Path(output_dir); output_dir.mkdir(exist_ok=True)
\* mkdir is outside every try: FileNotFoundError / FileExistsError leave
\* generate_all and end the process with a traceback, status 1.
\* Path.mkdir without exist_ok: an existing directory is an error too.
mkdir_strict(d) ==
  CASE d = "absent" -> [raised |-> None, dir |-> "exists"]
    [] d = "noparent" -> [raised |-> MsgNoParent, dir |-> d]
    [] OTHER -> [raised |-> MsgFileExists, dir |-> d]

\* output_path.mkdir(exist_ok=True) on a path found in state d: what it
\* raises, if anything, and the state it leaves the path in.
mkdir(d) ==
  CASE d \in {"exists", "absent"} -> [raised |-> None, dir |-> "exists"]
    [] d = "noparent" -> [raised |-> MsgNoParent, dir |-> d]
    [] OTHER -> [raised |-> MsgFileExists, dir |-> d]

\* The states generate_all may find its output directory in: any, the first
\* time; afterwards the state the previous call's mkdir left.
DirFound == IF outDir = "unknown" THEN DirStates ELSE {mkdir(outDir).dir}

generate_all_mkdir ==
  /\ pc = "mkdir"
  /\ \E d \in DirFound :
       /\ outDir' = d
       /\ IF mkdir(d).raised = None
            THEN /\ pc' = "all" /\ idx' = 1
                 /\ UNCHANGED <<escaped, exitCode>>
            ELSE /\ escaped' = mkdir(d).raised
                 /\ Exit(1)
                 /\ UNCHANGED idx
  /\ results' = EmptyDict
  /\ UNCHANGED <<script, argv, provider, cur, env, ret, net, started, files>>
  /\ UNCHANGED <<args, twiceVars, concVars>>

-----------------------------------------------------------------------------
(* Adapter calls *)

\* The provider the next adapter call is for.
Target == IF pc = "single" THEN provider ELSE Registry(script)[idx]

\* The scripts whose adapters take the path to save the image to.
OutputScripts == {"claude_image_generation", "claude_image_generation_v2"}

\* The arguments every provider gets when all are called: the prompt, the
\* adapter's default model, and the provider's file in the output directory.
DefaultArgs(p) ==
  [prompt |-> argv[1],
   model  |-> DefaultModel(script, p),
   output |-> IF script \in OutputScripts
                THEN OutputPath(OutputDirArg, p) ELSE None]

\* The same, with the third word of the command line applied whenever it
\* is given.
CallArgs_sticky(p) ==
  IF Len(argv) < 3 \/ script = "image_generation_v2"
    THEN DefaultArgs(p)
    ELSE IF script \in OutputScripts
      THEN [DefaultArgs(p) EXCEPT !.output = argv[3]]
      ELSE [DefaultArgs(p) EXCEPT !.model = argv[3]]

\* The arguments the adapter of provider p is called with.  The third word
\* is looked at in the single-provider branch only: there the text scripts
\* pass it as the model when it is truthy, and claude/image_generation*.py
\* pass args.output, whose default is OutputArg; image_generation_v2.py
\* never reads sys.argv[3].
CallArgs(p) ==
  IF pc # "single" \/ script = "image_generation_v2"
    THEN DefaultArgs(p)
    ELSE IF script \in OutputScripts
      THEN [DefaultArgs(p) EXCEPT
              !.output = IF Len(argv) > 2 THEN argv[3] ELSE OutputArg]
      ELSE [DefaultArgs(p) EXCEPT
              !.model = IF Len(argv) > 2 /\ argv[3] # ""
                          THEN argv[3] ELSE DefaultModel(script, p)]

\* The output path the outstanding adapter call was given.
PathArg == args[cur].output

\* The environments an adapter call may meet.  When the same request is made
\* a second time the adapters are taken to be deterministic: each meets the
\* environment it met the first time.
AdapterEnvs(p) == IF calls > 1 THEN {env[p]} ELSE EnvsFor(script, p)

\* The process enters an adapter function; the environment of this
\* invocation is fixed here.  Calls are made one at a time: the next one
\* starts only when none is outstanding.
CallAdapter ==
  /\ pc \in {"single", "all"}
  /\ cur = None
  /\ pc = "all" => idx <= Len(Registry(script))
  /\ \E e \in AdapterEnvs(Target) : env' = [env EXCEPT ![Target] = e]
  /\ cur' = Target
  /\ started' = Append(started, Target)
  /\ args' = [args EXCEPT ![Target] = CallArgs(Target)]
  /\ UNCHANGED <<script, argv, outDir, pc, provider, idx, results, ret, net,
                 files, escaped, exitCode>>
  /\ UNCHANGED <<twiceVars, concVars>>

\* Bookkeeping shared by every return from an adapter; a call whose vendor
\* never answers never returns.
Settled(o) ==
  /\ env[cur].net # "hang"
  /\ ret' = [ret EXCEPT ![cur] = o]
  /\ net' = [net EXCEPT ![cur] = @ + o.net]
  /\ cur' = None

\* query_llms.py / query_llms_v2.py, single provider: the response is printed
\* when truthy and the process ends normally, otherwise sys.exit(1).
single_query_llms ==
  /\ pc = "single"
  /\ cur # None
  /\ script \in {"query_llms", "query_llms_v2"}
  /\ LET o == Invoke(script, cur, env[cur], PathArg) IN
       /\ Settled(o)
       /\ files' = files \cup o.files
       /\ Exit(IF Truthy(o.val) THEN 0 ELSE 1)
  /\ UNCHANGED <<script, argv, outDir, provider, idx, env, results, started,
                 escaped>>
  /\ UNCHANGED <<args, twiceVars, concVars>>

\* File main downloads url i of a provider of image_generation_v2.py to.
DownloadPath(p, i) ==
  IF p = "openai"
    THEN (IF i = 0 THEN "generated_images/dalle_0.png"
          ELSE "generated_images/dalle_1.png")
    ELSE (IF i = 0 THEN "generated_images/replicate_0.png"
          ELSE "generated_images/replicate_1.png")

\* image_generation_v2.py: a truthy result is printed; for openai and
\* replicate each url is downloaded (download_image swallows its own errors,
\* so any subset of the downloads writes its file); the process then ends
\* normally whatever the result was.
single_image_generation_v2 ==
  /\ pc = "single"
  /\ cur # None
  /\ script = "image_generation_v2"
  /\ LET o == Invoke(script, cur, env[cur], PathArg) IN
       /\ Settled(o)
       /\ IF Truthy(o.val) /\ cur \in {"openai", "replicate"}
            THEN \E ok \in SUBSET (0..(o.val.n - 1)) :
                   files' = files \cup o.files
                              \cup {DownloadPath(cur, i) : i \in ok}
            ELSE files' = files \cup o.files
       /\ Exit(0)
  /\ UNCHANGED <<script, argv, outDir, provider, idx, env, results, started,
                 escaped>>
  /\ UNCHANGED <<args, twiceVars, concVars>>

\* claude/ scripts, single provider: func_map[args.provider](...) is called
\* outside any try; a raised exception ends the process with a traceback
\* (status 1), a returned value is printed.
single_argparse ==
  /\ pc = "single"
  /\ cur # None
  /\ script \in ArgparseScripts
  /\ LET o == Invoke(script, cur, env[cur], PathArg) IN
       /\ Settled(o)
       /\ files' = files \cup o.files
       /\ IF o.kind = "raise"
            THEN escaped' = o.msg /\ Exit(1)
            ELSE UNCHANGED escaped /\ Exit(0)
  /\ UNCHANGED <<script, argv, outDir, provider, idx, env, results, started>>
  /\ UNCHANGED <<args, twiceVars, concVars>>

\* query_llms.py / query_llms_v2.py, all providers: the calls are written out
\* one after the other in main; a truthy response is printed, nothing is
\* stored.
all_query_llms ==
  /\ pc = "all"
  /\ cur # None
  /\ script \in {"query_llms", "query_llms_v2"}
  /\ LET o == Invoke(script, cur, env[cur], PathArg) IN
       /\ Settled(o)
       /\ files' = files \cup o.files
  /\ idx' = idx + 1
  /\ UNCHANGED <<script, argv, outDir, pc, provider, env, results, started,
                 escaped, exitCode>>
  /\ UNCHANGED <<args, twiceVars, concVars>>

\* A block without its except clause: the exception leaves query_all.
query_all_step_uncaught ==
  /\ pc = "all"
  /\ cur # None
  /\ script \in ArgparseScripts
  /\ LET o == Invoke(script, cur, env[cur], PathArg) IN
       /\ Settled(o)
       /\ files' = files \cup o.files
       /\ IF o.kind = "raise"
            THEN /\ escaped' = o.msg /\ Exit(1)
                 /\ UNCHANGED <<results, idx>>
            ELSE /\ results' = SetItem(results, cur, o.val)
                 /\ idx' = idx + 1
                 /\ UNCHANGED <<escaped, exitCode, pc>>
  /\ UNCHANGED <<script, argv, outDir, provider, env, started>>
  /\ UNCHANGED <<args, twiceVars, concVars>>

\* query_all / generate_all: one try/except block.
query_all_step ==
  /\ pc = "all"
  /\ cur # None
  /\ script \in ArgparseScripts
  /\ LET o == Invoke(script, cur, env[cur], PathArg) IN
       /\ Settled(o)
       /\ files' = files \cup o.files
       /\ results' = TryStore(results, cur, o)
  /\ idx' = idx + 1
  /\ UNCHANGED <<script, argv, outDir, pc, provider, env, started, escaped,
                 exitCode>>
  /\ UNCHANGED <<args, twiceVars, concVars>>

\* A return taken as soon as the first provider has settled.
all_return_first ==
  /\ pc = "all"
  /\ cur = None
  /\ idx > 1
  /\ Exit(0)
  /\ UNCHANGED <<script, argv, outDir, provider, idx, cur, env, results, ret,
                 net, started, files, escaped>>
  /\ UNCHANGED <<args, twiceVars, concVars>>

\* An end of run that reports any provider's failure through the status.
all_return_strict ==
  /\ pc = "all"
  /\ cur = None
  /\ idx > Len(Registry(script))
  /\ Exit(IF \E p \in Providers(script) :
              ret[p].kind = "raise" \/ ret[p].val = NoneV
           THEN 1 ELSE 0)
  /\ UNCHANGED <<script, argv, outDir, provider, idx, cur, env, results, ret,
                 net, started, files, escaped>>
  /\ UNCHANGED <<args, twiceVars, concVars>>

\* After the last provider: query_all / generate_all executes `return
\* results` and __main__ prints every entry; main of query_llms*.py falls off
\* its end.  The process exits with status 0.
all_return ==
  /\ pc = "all"
  /\ cur = None
  /\ idx > Len(Registry(script))
  /\ Exit(0)
  /\ UNCHANGED <<script, argv, outDir, provider, idx, cur, env, results, ret,
                 net, started, files, escaped>>
  /\ UNCHANGED <<args, twiceVars, concVars>>

Next ==
  \/ main_query_llms
  \/ main_image_generation_v2
  \/ main_argparse
  \/ generate_all_mkdir
  \/ CallAdapter
  \/ single_query_llms
  \/ single_image_generation_v2
  \/ single_argparse
  \/ all_query_llms
  \/ query_all_step
  \/ all_return

Spec == Init /\ [][Next]_vars

-----------------------------------------------------------------------------
(* The same request, twice *)

\* The all-providers run of a claude/ script has ended and the same request
\* is made once more, against the file system the first run left behind.
\* Everything local to the run starts afresh.
call_again ==
  /\ pc = "exit"
  /\ script \in ArgparseScripts
  /\ provider = "all"
  /\ calls < MaxCalls
  /\ calls' = calls + 1
  /\ first' = IF first.made THEN first
              ELSE [made |-> TRUE, results |-> results, escaped |-> escaped]
  /\ pc' = IF script \in OutputScripts THEN "mkdir" ELSE "all"
  /\ idx' = 1
  /\ cur' = None
  /\ results' = EmptyDict
  /\ ret' = [p \in Providers(script) |-> NoRet]
  /\ net' = [p \in Providers(script) |-> 0]
  /\ args' = [p \in Providers(script) |-> NoArgs]
  /\ started' = <<>>
  /\ escaped' = None
  /\ exitCode' = Running
  /\ UNCHANGED <<script, argv, outDir, provider, env, files, concVars>>

TwiceNext == Next \/ call_again

TwiceSpec == Init /\ [][TwiceNext]_vars

-----------------------------------------------------------------------------
(* Two generate_all calls at the same time *)

\* The variables of the single run.
runVars == <<script, argv, outDir, pc, provider, idx, cur, env, results, ret,
             net, started, files, escaped, exitCode, args, calls, first>>

\* The environments a block of a concurrent caller may meet: the vendor
\* answers with an image, or the connection fails.
ConcEnvs(p) ==
  {e \in EnvsFor(script, p) : e \in {GoodEnv, [GoodEnv EXCEPT !.net = "exc"]}}

\* Caller c enters generate_all: output_path.mkdir(exist_ok=True) on a
\* directory that exists or can be created, then results = {}.
conc_mkdir(c) ==
  /\ cpos[c] = 0
  /\ cpos' = [cpos EXCEPT ![c] = 1]
  /\ cres' = [cres EXCEPT ![c] = EmptyDict]
  /\ UNCHANGED <<owner, runVars>>

\* Caller c runs its next try/except block: the adapter writes its image to
\* the provider's file in the output directory and the path is stored.
conc_step(c) ==
  /\ cpos[c] \in 1..Len(Registry(script))
  /\ LET p == Registry(script)[cpos[c]] IN
       \E e \in ConcEnvs(p) :
         LET o == Invoke(script, p, e, OutputPath(OutputDirArg, p)) IN
           /\ cres' = [cres EXCEPT ![c] = TryStore(@, p, o)]
           /\ owner' = [f \in DOMAIN owner |->
                          IF f \in o.files THEN c ELSE owner[f]]
  /\ cpos' = [cpos EXCEPT ![c] = @ + 1]
  /\ UNCHANGED runVars

ConcNext == \E c \in Callers : conc_mkdir(c) \/ conc_step(c)

ConcInit == Init /\ script \in OutputScripts /\ argv = <<Prompt, "all">>

ConcSpec == ConcInit /\ [][ConcNext]_vars

-----------------------------------------------------------------------------
(* Type invariant *)

TypeOK ==
  /\ script \in Scripts
  /\ pc \in {"main", "mkdir", "single", "all", "exit"}
  /\ cur \in Providers(script) \cup {None}
  /\ DOMAIN results \subseteq Providers(script)
  /\ exitCode \in {Running, 0, 1, 2}
  /\ (pc = "exit") <=> (exitCode # Running)

-----------------------------------------------------------------------------
(* The all-providers operation of the claude/ scripts *)

\* query_all / generate_all was entered and has executed `return results`.
AllReturned ==
  /\ script \in ArgparseScripts
  /\ provider = "all"
  /\ pc = "exit"
  /\ escaped = None

\* The providers whose block has finished, while the blocks are running.
Done == {Registry(script)[i] : i \in 1..(idx - 1)}

\* The step-by-step run and the function query_all agree.
StepsMatchFunction == AllReturned => results = query_all(script, env)

C2_FailureIsolated ==
  (script \in ArgparseScripts /\ provider = "all" /\ pc \in {"all", "exit"}) =>
    /\ \A p \in Providers(script) :
         ret[p].kind = "raise" =>
           /\ p \in DOMAIN results
           /\ results[p] = StrV("Error: " \o ret[p].msg)
    /\ escaped # None => started = <<>>
    /\ (pc = "exit" /\ escaped = None) => started = Registry(script)

\* The first provider raised and the other two were invoked after it.
C2_Witness ==
  /\ AllReturned
  /\ ret[Registry(script)[1]].kind = "raise"
  /\ started = Registry(script)
  /\ ret[Registry(script)[3]].kind = "return"

\* C3 (as claimed): every all-providers call of the claude/ scripts ends by
\* returning the complete map, none ends with a raised error.
C3_AlwaysReturnsMap ==
  (script \in ArgparseScripts /\ provider = "all" /\ pc = "exit") =>
    /\ escaped = None
    /\ DOMAIN results = Providers(script)

\* The environment in which a provider's vendor call raises.
TransportFail == [GoodEnv EXCEPT !.net = "exc"]

\* C4: take the run that returned and the two runs that differ from it only
\* in provider A, whose vendor call raises in one and succeeds in the other:
\* A's entry in the failing run is the formatted transport failure, and every
\* other provider's entry is the same in the three runs.
C4_Independence ==
  AllReturned =>
    \A A \in Providers(script) :
      LET Rf == query_all(script, [env EXCEPT ![A] = TransportFail])
          Ro == query_all(script, [env EXCEPT ![A] = GoodEnv])
      IN /\ DOMAIN Rf = Providers(script)
         /\ DOMAIN Ro = Providers(script)
         /\ Rf[A] = StrV("Error: " \o MsgTransport)
         /\ Ro[A] # Rf[A]
         /\ \A B \in Providers(script) \ {A} :
              Rf[B] = Ro[B] /\ Rf[B] = results[B]

\* A returned run in which the first provider's call raised at the transport
\* layer while the other providers succeeded.
C4_Witness ==
  /\ AllReturned
  /\ env[Registry(script)[1]] = TransportFail
  /\ \A i \in 2..3 : ret[Registry(script)[i]].kind = "return"

\* C5 (as claimed): whether a provider succeeded can be decided from its
\* entry alone, so two providers with equal entries fared the same.
C5_EntryDecides ==
  \A p, q \in DOMAIN results :
    results[p] = results[q] => ret[p].kind = ret[q].kind

\* C6 (as claimed): no adapter invocation ends with an exception leaving
\* the adapter function.
C6_NoAdapterRaises ==
  \A p \in Providers(script) : ret[p].kind # "raise"

\* C7 (as claimed): an adapter invoked without its API key fails without
\* having issued a vendor request.
C7_KeyCheckedBeforeNetwork ==
  \A p \in Providers(script) :
    (ret[p].kind # "none" /\ ~env[p].key) =>
      /\ net[p] = 0
      /\ ret[p].kind = "raise" \/ ret[p].val = NoneV

\* C8 (as claimed): an image adapter whose vendor call came back without any
\* image (empty list or missing key) reports a failure, never a success.
C8_NoEmptySuccess ==
  \A p \in Providers(script) :
    (/\ script \notin TextScripts
     /\ ret[p].kind # "none"
     /\ env[p].net = "ok"
     /\ env[p].payload \in {"empty", "missing"}) =>
      ret[p].kind = "raise" \/ ret[p].val = NoneV

\* C9: an adapter invocation calls the vendor endpoint at most once, on
\* success and on every failure.
C9_NoRetry ==
  \A p \in Providers(script) : net[p] <= 1 /\ ret[p].net <= 1

\* An invocation whose single vendor call failed.
C9_Witness ==
  \E p \in Providers(script) :
    ret[p].kind # "none" /\ env[p].net # "ok" /\ net[p] = 1

\* The provider word as the script reads it.
ProviderWord == IF script \in ArgvScripts THEN lower(argv[2]) ELSE argv[2]

\* The words that select something: the registry names, and "all" where the
\* script has that choice.
Selectable ==
  Providers(script) \cup (IF script \in ArgparseScripts THEN {"all"} ELSE {})

\* C10 (as claimed): a run given a provider word that is not in the registry
\* invokes no adapter and exits with a non-zero status.
C10_UnknownProviderRejected ==
  (Len(argv) > 1 /\ ProviderWord \notin Selectable) =>
    /\ started = <<>>
    /\ pc # "main" => (pc = "exit" /\ exitCode # 0)

-----------------------------------------------------------------------------
(* Exit status of the command-line scripts *)

\* The run asked for exactly one provider and has invoked its adapter.
SingleRun ==
  /\ provider \in Providers(script)
  /\ started = <<provider>>

\* The run took the all-providers path and has reached its end.
AllRunEnded ==
  /\ provider \notin Providers(script)
  /\ started # <<>>
  /\ pc = "exit"

\* An adapter invocation that ended in failure: it raised, or handed back
\* None.
Failed(o) == o.kind = "raise" \/ (o.kind = "return" /\ o.val = NoneV)

\* An adapter invocation that handed back a value.
Succeeded(o) == o.kind = "return" /\ o.val # NoneV

\* C11 (as claimed): in every script, a run that asked for one provider whose
\* invocation failed exits with status 1.
C11_SingleFailureExitsOne ==
  (SingleRun /\ pc = "exit" /\ Failed(ret[provider])) => exitCode = 1

\* C12: in every script with an all-providers path, a run of that path in
\* which at least one provider succeeded exits with status 0, whatever the
\* other providers did.
C12_AllSuccessExitsZero ==
  (AllRunEnded /\ \E p \in Providers(script) : Succeeded(ret[p])) =>
    exitCode = 0

\* An ended all-providers run with one success, one raise and one None.
C12_Witness ==
  /\ AllRunEnded
  /\ exitCode = 0
  /\ \E p, q \in Providers(script) :
       /\ Succeeded(ret[p])
       /\ Failed(ret[q])

-----------------------------------------------------------------------------
(* Scheduling of the adapter calls *)

\* C13 (as claimed): adapters are invoked in parallel, so an adapter that has
\* not settled does not delay the start of another: while a call of the
\* all-providers path is outstanding and a provider is still to be invoked,
\* that provider's invocation can start.
C13_ParallelStart ==
  (pc = "all" /\ cur # None /\ idx < Len(Registry(script))) =>
    ENABLED CallAdapter

\* C14: query_all / generate_all returns only after every adapter it invoked
\* has settled, and each entry of the map is the outcome that provider's own
\* invocation produced: none is missing, none was overwritten by another
\* provider's outcome.
C14_CollectAll ==
  /\ (script \in ArgparseScripts /\ provider = "all") =>
       \A p \in DOMAIN results :
         ret[p].kind # "none" /\ results[p] = Entry(ret[p])
  /\ AllReturned =>
       /\ cur = None
       /\ \A p \in Providers(script) :
            ret[p].kind # "none" /\ p \in DOMAIN results

\* A returned map in which an early failure sits next to later outcomes.
C14_Witness ==
  /\ AllReturned
  /\ Len(started) = Len(Registry(script))
  /\ ret[Registry(script)[1]].kind = "raise"
  /\ results[Registry(script)[1]] = Entry(ret[Registry(script)[1]])
  /\ ret[Registry(script)[2]].kind = "return"

-----------------------------------------------------------------------------
(* Termination *)

\* A running process executes its next statement.
LiveSpec == Spec /\ WF_vars(Next)

\* C15 (as claimed): a provider that does not respond cannot block the
\* all-providers operation forever: once entered, it eventually returns.
C15_AlwaysReturns == (pc = "all") ~> (pc = "exit")

-----------------------------------------------------------------------------
(* Order of the blocks *)

\* C19: the map query_all / generate_all returns does not depend on the
\* order in which the providers are invoked: running the same three blocks
\* in any permutation, against the same environment, gives the map the run
\* returned.
C19_OrderIndependent ==
  AllReturned =>
    \A o \in Orders(script) :
      all_in_order(script, env, o, 1, EmptyDict) = results

\* A returned map with a failure between two different successes.
C19_Witness ==
  /\ AllReturned
  /\ ret[Registry(script)[1]].kind = "return"
  /\ ret[Registry(script)[2]].kind = "raise"
  /\ ret[Registry(script)[3]].kind = "return"
  /\ results[Registry(script)[1]] # results[Registry(script)[3]]

\* C20: when all providers are called, every adapter gets the same request:
\* the prompt of the command line, its own default model, and its own file
\* in the output directory.  A model or an output path given on the command
\* line reaches an adapter only when that one provider was selected.
C20_SameRequest ==
  \A p \in Providers(script) :
    args[p] # NoArgs =>
      /\ args[p].prompt = argv[1]
      /\ provider \notin Providers(script) => args[p] = DefaultArgs(p)
      /\ (args[p].model = Override \/ args[p].output = Override)
           => SingleRun /\ p = provider

\* All providers were called on a command line that carries the third word.
C20_Witness ==
  /\ provider \notin Providers(script)
  /\ Len(argv) > 2
  /\ \A p \in Providers(script) : args[p] # NoArgs

\* A single provider was called with the model of the command line.
C20_WitnessSingle ==
  /\ SingleRun
  /\ script \in TextScripts
  /\ args[provider].model = Override

\* C17: two successive all-providers calls with the same request, against
\* adapters that behave the same both times, end the same way: the same map
\* is returned, or the same exception leaves the function.
C17_Idempotent ==
  (calls > 1 /\ pc = "exit") =>
    /\ results = first.results
    /\ escaped = first.escaped

\* A second generate_all call returned after a first one that wrote files
\* and collected both a path and an error.
C17_Witness ==
  /\ calls > 1
  /\ AllReturned
  /\ script \in OutputScripts
  /\ files # {}
  /\ \E p, q \in Providers(script) :
       ret[p].kind = "return" /\ ret[q].kind = "raise"

\* The file a returned path names holds the image of the call that returned
\* the path.
OwnFiles(c) ==
  \A p \in DOMAIN cres[c] :
    cres[c][p] = StrV(OutputPath(OutputDirArg, p))
      => owner[OutputPath(OutputDirArg, p)] = c

\* C18: two generate_all calls running at the same time do not interfere:
\* once a call has returned, every path in its map names the image that
\* call generated, as it would had the call run alone.
C18_CallsIndependent ==
  \A c \in Callers : cpos[c] > Len(Registry(script)) => OwnFiles(c)

\* The files whose paths an image adapter's return value holds: the output
\* path of the claude/ adapters, the image_paths of generate_image_stability;
\* the other adapters of image_generation_v2.py return urls, not paths.
PathsReturned(p, o) ==
  IF script \in OutputScripts
    THEN (IF Succeeded(o) THEN {o.val.s} ELSE {})
    ELSE IF p = "stability" /\ Succeeded(o)
      THEN {StabilityPath(i) : i \in 0..(o.val.n - 1)}
      ELSE {}

\* C21: an image adapter writes files only when it succeeds: an invocation
\* that raised or returned None wrote no file, and every path a successful
\* invocation returned is a file that invocation wrote.
C21_WritesOnlyOnSuccess ==
  \A p \in Providers(script) :
    (script \notin TextScripts /\ ret[p].kind # "none") =>
      /\ Failed(ret[p]) => ret[p].files = {}
      /\ PathsReturned(p, ret[p]) \subseteq ret[p].files

\* C22: a single-provider run of query_llms.py / query_llms_v2.py ends with
\* exit code 1 exactly when the adapter returned None; any returned text,
\* the empty string included, is printed and the process ends normally.
C22_ExitOneOnlyOnNone ==
  (SingleRun /\ script \in {"query_llms", "query_llms_v2"} /\ pc = "exit") =>
    /\ (exitCode = 1) <=> (ret[provider].val = NoneV)
    /\ (exitCode = 0) <=> Succeeded(ret[provider])


=============================================================================
